---- MODULE Spec2Model ----
(***************************************************************************)
(* Model of tokens.py (oditorium/tokens): the class Token, its nested      *)
(* class TokenValue, the class attributes _register, _index and _numindex  *)
(* and the operations that read and write them.                            *)
(*                                                                         *)
(* Python values are represented as follows.                               *)
(*   - an optional value is a sequence: None is << >>, a present value x   *)
(*     is <<x>>;                                                           *)
(*   - an OrderedDict is the sequence of its items [k, v] in insertion     *)
(*     order;                                                              *)
(*   - an object with identity (a Token, a TokenValue, a dict made by      *)
(*     makeroot) carries an id that is fresh at its creation: the number   *)
(*     of the call for an instance and the TokenValue made in it, the      *)
(*     class and the number of makeroot calls on it for a dict;            *)
(*   - a class attribute is a function whose DOMAIN is the set of classes  *)
(*     that hold the attribute in their own __dict__; reading cls.attr     *)
(*     walks the method resolution order of cls.                           *)
(***************************************************************************)
EXTENDS Integers, Sequences, FiniteSets, TLC

\* ------------------------------------------------------------------ bounds
\* calls that change the registry (Token(...) and makeroot) in one run of Spec
MaxCalls == 3
\* the read-only calls of Spec are explored after at most this many of them
MaxObserved == 2
\* the same two bounds for the longer runs of SpecDeep
MaxDeepCalls == 4
MaxDeepObserved == 3
\* calls that make an object or change the registry in one run of SpecValues
MaxValueCalls == 4
\* calls that change the registry in one run of SpecScenario
MaxScenarioCalls == 5

\* ------------------------------------------------------- the class hierarchy
\* class Status(Token); class Success(Status); class Error(Status), lines 67-69;
\* class Comparison(Token); class Existence(Comparison), lines 103-107
Classes == {"Token", "Status", "Success", "Error", "Comparison", "Existence"}

Parent ==
    [c \in Classes \ {"Token"} |->
        CASE c \in {"Status", "Comparison"} -> "Token"
          [] c \in {"Success", "Error"} -> "Status"
          [] c = "Existence" -> "Comparison"]

RECURSIVE MRO(_)
MRO(c) == IF c = "Token" THEN <<"Token">> ELSE <<c>> \o MRO(Parent[c])

\* issubclass(c, d)
issubclass(c, d) == \E i \in 1..Len(MRO(c)) : MRO(c)[i] = d

\* ------------------------------------------------------------ Python values
None == << >>
Some(x) == <<x>>

\* k in d
DictHas(d, k) == \E i \in 1..Len(d) : d[i].k = k

\* d[k], for a key that is present
DictGet(d, k) == d[CHOOSE i \in 1..Len(d) : d[i].k = k].v

\* d[k] = v on an OrderedDict: a new key goes last, an old key keeps its place
DictSet(d, k, v) ==
    IF DictHas(d, k)
    THEN [i \in 1..Len(d) |-> IF d[i].k = k THEN [k |-> k, v |-> v] ELSE d[i]]
    ELSE Append(d, [k |-> k, v |-> v])

\* OrderedDict(): a new, empty dict, told from the others by id
NewDict(id) == [id |-> id, items |-> << >>]

\* ------------------------------------------------------------------- inputs
\* the classes a program instantiates and makes roots; Token is their base
TokenClasses == {"Status", "Success", "Error"}
Names == {"A", "B"}
NoPayload == <<None, None, None>>
\* (floatval, dictval, listval) of a call
PayloadArgs == {NoPayload, <<Some(1), Some("d"), Some("l")>>}
\* (strval, intval, payload) of the calls of Spec: a name, with or without an int
NamedArgs == {<<Some(n), i, NoPayload>> : n \in Names, i \in {None, Some(1)}}
\* (strval, intval, payload) of the calls of SpecValues: no name, or one name
\* with and without payload and with and without an int
ValueArgs == {<<None, None, NoPayload>>} \cup {<<Some("A"), None, p>> : p \in PayloadArgs}
IntArgs == {<<Some("A"), Some(1), NoPayload>>}
\* the classes of the calls of SpecValues
ValueClasses == {"Status", "Success"}
\* the calls of the example of lines 103-109, listval=(operator.eq,) written
\* "eq", and one more that repeats a name of Comparison in Existence
ScenarioClasses == {"Comparison", "Existence"}
ScenarioNames == {"EQ", "LT", "EX", "NX"}
ScenarioArgs ==
    {<<"Comparison", Some("EQ"), <<None, None, Some("eq")>>>>,
     <<"Comparison", Some("LT"), <<None, None, Some("lt")>>>>,
     <<"Existence", Some("EX"), NoPayload>>,
     <<"Existence", Some("NX"), NoPayload>>,
     <<"Existence", Some("EQ"), NoPayload>>}
\* the keys looked up
Keys == {Some(n) : n \in Names}
NumKeys == {None, Some(1)}

VARIABLES
    register,     \* the attribute _register of each class that holds one
    index,        \* the attribute _index of each class that holds one
    numindex,     \* the attribute _numindex of each class that holds one
    values,       \* the TokenValue objects the caller built and holds
    hist,         \* every Token(...) call so far, in order: the instance and its fate
    rootflags,    \* the arguments of the latest makeroot call on each class, the
                  \* number of the calls on it and whether one came after a token
    nmakeroot,    \* number of makeroot calls so far
    last          \* the latest call and its outcome

vars == <<register, index, numindex, values, hist, rootflags, nmakeroot, last>>

registry == <<register, index, numindex>>

\* --------------------------------------------------------- attribute lookup
\* cls.attr exists
HasAttr(attr, cls) == \E i \in 1..Len(MRO(cls)) : MRO(cls)[i] \in DOMAIN attr

\* the class whose __dict__ answers cls.attr
Owner(attr, cls) ==
    MRO(cls)[CHOOSE i \in 1..Len(MRO(cls)) :
                /\ MRO(cls)[i] \in DOMAIN attr
                /\ \A j \in 1..(i - 1) : MRO(cls)[j] \notin DOMAIN attr]

\* cls.attr
GetAttr(attr, cls) == attr[Owner(attr, cls)]

\* cls.attr = d
SetAttr(attr, cls, d) ==
    [c \in DOMAIN attr \cup {cls} |-> IF c = cls THEN d ELSE attr[c]]

\* ---------------------------------------------------------------- TokenValue
TokenValue(id, strval, intval, floatval, dictval, listval) ==
    [id |-> id, strval |-> strval, intval |-> intval, floatval |-> floatval,
     dictval |-> dictval, listval |-> listval]

\* ------------------------------------------------------------ Token accessors
TokenStr(s) == s.val.strval
TokenInt(s) == s.val.intval
TokenFloat(s) == s.val.floatval
TokenType(s) == s.cls

\* ------------------------------------------------------------ Token.__init__
\* line 142 without the check
LocalDuplicateUnchecked(local, s) == FALSE

\* line 142: s.str in register
LocalDuplicate(local, s) == DictHas(local, TokenStr(s))

\* line 149 with the check against the instance's own class only
IndexDuplicateSameClass(ix, s) ==
    /\ DictHas(ix.items, TokenStr(s))
    /\ DictGet(ix.items, TokenStr(s)).cls = s.cls

\* line 149: s.str in index
IndexDuplicate(ix, s) == DictHas(ix.items, TokenStr(s))

\* line 157 without the check
NumIndexDuplicateUnchecked(ix, s) == FALSE

\* line 157: s.int in index
NumIndexDuplicate(ix, s) == DictHas(ix.items, TokenInt(s))

\* lines 137-144: the register of the instance's class, made on first use, then
\* the check of the name in it and the insertion
InitLocal(s) ==
    LET o == Owner(register, s.cls)
        reg0 == register[o].items
        reg1 == IF DictHas(reg0, s.cls) THEN reg0 ELSE DictSet(reg0, s.cls, << >>)
        local == DictGet(reg1, s.cls)
    IN  IF LocalDuplicate(local, s)
        THEN [register |-> [register EXCEPT ![o].items = reg1], raised |-> 143]
        ELSE [register |-> [register EXCEPT ![o].items =
                                DictSet(reg1, s.cls, DictSet(local, TokenStr(s), s))],
              raised |-> 0]

\* lines 147-153: a class without _index raises AttributeError, which is passed over
InitIndex(s) ==
    IF ~HasAttr(index, s.cls)
    THEN [index |-> index, raised |-> 0]
    ELSE LET o == Owner(index, s.cls)
         IN  IF IndexDuplicate(index[o], s)
             THEN [index |-> index, raised |-> 150]
             ELSE [index |-> [index EXCEPT ![o].items = DictSet(@, TokenStr(s), s)],
                   raised |-> 0]

\* lines 155-161
InitNumIndex(s) ==
    IF ~HasAttr(numindex, s.cls)
    THEN [numindex |-> numindex, raised |-> 0]
    ELSE LET o == Owner(numindex, s.cls)
         IN  IF NumIndexDuplicate(numindex[o], s)
             THEN [numindex |-> numindex, raised |-> 158]
             ELSE [numindex |-> [numindex EXCEPT ![o].items = DictSet(@, TokenInt(s), s)],
                   raised |-> 0]

\* lines 125-161 with the three checks made before the first insertion
TokenInitChecksFirst(s) ==
    IF TokenStr(s) = None
    THEN [register |-> register, index |-> index, numindex |-> numindex, raised |-> 132]
    ELSE LET a == InitLocal(s)
             b == InitIndex(s)
             c == InitNumIndex(s)
         IN  IF a.raised # 0 \/ b.raised # 0 \/ c.raised # 0
             THEN [register |-> register, index |-> index, numindex |-> numindex,
                   raised |-> IF a.raised # 0 THEN a.raised
                              ELSE IF b.raised # 0 THEN b.raised ELSE c.raised]
             ELSE [register |-> a.register, index |-> b.index, numindex |-> c.numindex,
                   raised |-> 0]

\* lines 125-161 on the instance s, whose _val is set (lines 126-129): the class
\* attributes when __init__ ends and the line that raised (0: it returned)
TokenInit(s) ==
    IF TokenStr(s) = None
    THEN [register |-> register, index |-> index, numindex |-> numindex, raised |-> 132]
    ELSE LET a == InitLocal(s)
             b == InitIndex(s)
             c == InitNumIndex(s)
         IN  IF a.raised # 0
             THEN [register |-> a.register, index |-> index, numindex |-> numindex,
                   raised |-> a.raised]
             ELSE IF b.raised # 0
             THEN [register |-> a.register, index |-> index, numindex |-> numindex,
                   raised |-> b.raised]
             ELSE [register |-> a.register, index |-> b.index, numindex |-> c.numindex,
                   raised |-> c.raised]

\* the exception class raised at a line of tokens.py ("" for a normal return)
ExcAt(line) ==
    CASE line = 0 -> ""
      [] line \in {132, 143, 150, 158} -> "RuntimeError"
      [] line \in {197, 222} -> "AttributeError"
      [] line \in {202, 227} -> "KeyError"

\* the message of the exception raised at a line
MsgAt(line) ==
    CASE line = 132 -> "token must have a string value"
      [] line = 143 -> "Token must be globally unique in this micro segment"
      [] line \in {150, 158} -> "Token must be globally unique in this segment"
      [] line = 202 -> "token with this string value does not exist"
      [] line = 227 -> "token with this int value does not exist"
      [] OTHER -> ""

\* the record of a call in `last`
Call(op, cls, args, raised, ret) ==
    [op |-> op, cls |-> cls, args |-> args, raised |-> raised,
     exc |-> ExcAt(raised), msg |-> MsgAt(raised), ret |-> ret]

\* lines 126-129 with the test turned round: a name in the arguments wins
ResolveValFieldsFirst(tid, strval, intval, payload, val) ==
    IF val = None \/ strval # None
    THEN TokenValue(tid, strval, intval, payload[1], payload[2], payload[3])
    ELSE val[1]

\* lines 126-129: the bundle of the new instance
ResolveVal(tid, strval, intval, payload, val) ==
    IF val = None
    THEN TokenValue(tid, strval, intval, payload[1], payload[2], payload[3])
    ELSE val[1]

\* cls(strval, intval, floatval, dictval, listval, val)
Construct(cls, strval, intval, payload, val) ==
    /\ LET tid == Len(hist) + 1
           v == ResolveVal(tid, strval, intval, payload, val)
           s == [id |-> tid, cls |-> cls, val |-> v]
           out == TokenInit(s)
       IN  /\ register' = out.register
           /\ index' = out.index
           /\ numindex' = out.numindex
           /\ hist' = Append(hist,
                  [tok |-> s, raised |-> out.raised,
                   root |-> Owner(register, cls),
                   reg |-> GetAttr(register, cls).id,
                   ix |-> IF HasAttr(index, cls) THEN Some(GetAttr(index, cls).id) ELSE None,
                   nix |-> IF HasAttr(numindex, cls) THEN Some(GetAttr(numindex, cls).id) ELSE None])
           /\ last' = Call("Token", cls, <<strval, intval, payload, val>>, out.raised,
                           IF out.raised = 0 THEN Some(s) ELSE None)
    /\ UNCHANGED <<values, rootflags, nmakeroot>>

\* Token.TokenValue(strval, intval, floatval, dictval, listval), lines 114-119
NewTokenValue(strval, intval, payload) ==
    /\ LET v == TokenValue(0 - (Cardinality(values) + 1), strval, intval,
                           payload[1], payload[2], payload[3])
       IN  /\ values' = values \cup {v}
           /\ last' = Call("TokenValue", "", <<strval, intval, payload>>, 0, Some(v))
    /\ UNCHANGED <<register, index, numindex, hist, rootflags, nmakeroot>>

\* ------------------------------------------------------------ Token.makeroot
\* how often makeroot was called on cls
Generation(cls) == IF cls \in DOMAIN rootflags THEN rootflags[cls].calls ELSE 0

\* a call cls(...) on cls or on a class below it has returned a token
HasTokens(cls) ==
    \E i \in 1..Len(hist) : hist[i].raised = 0 /\ issubclass(hist[i].tok.cls, cls)

\* lines 163-178 with the new _register taking over the entries of the one the
\* class resolved to
makerootKeeping(cls, globalIndex, globalNumIndex) ==
    /\ LET fresh == NewDict(<<cls, Generation(cls) + 1>>)
           kept == [id |-> fresh.id, items |-> GetAttr(register, cls).items]
       IN  /\ register' = SetAttr(register, cls, kept)
           /\ index' = IF globalIndex THEN SetAttr(index, cls, fresh) ELSE index
           /\ numindex' = IF globalNumIndex THEN SetAttr(numindex, cls, fresh) ELSE numindex
    /\ rootflags' = SetAttr(rootflags, cls,
                        [globalIndex |-> globalIndex, globalNumIndex |-> globalNumIndex,
                         calls |-> Generation(cls) + 1,
                         late |-> HasTokens(cls) \/
                                  (cls \in DOMAIN rootflags /\ rootflags[cls].late)])
    /\ nmakeroot' = nmakeroot + 1
    /\ last' = Call("makeroot", cls, <<globalIndex, globalNumIndex>>, 0, None)
    /\ UNCHANGED <<values, hist>>

\* lines 163-178
makeroot(cls, globalIndex, globalNumIndex) ==
    /\ LET fresh == NewDict(<<cls, Generation(cls) + 1>>)
       IN  /\ register' = SetAttr(register, cls, fresh)
           /\ index' = IF globalIndex THEN SetAttr(index, cls, fresh) ELSE index
           /\ numindex' = IF globalNumIndex THEN SetAttr(numindex, cls, fresh) ELSE numindex
    /\ rootflags' = SetAttr(rootflags, cls,
                        [globalIndex |-> globalIndex, globalNumIndex |-> globalNumIndex,
                         calls |-> Generation(cls) + 1,
                         late |-> HasTokens(cls) \/
                                  (cls \in DOMAIN rootflags /\ rootflags[cls].late)])
    /\ nmakeroot' = nmakeroot + 1
    /\ last' = Call("makeroot", cls, <<globalIndex, globalNumIndex>>, 0, None)
    /\ UNCHANGED <<values, hist>>

\* ------------------------------------------------------ lookups, lines 180-228
\* lines 197-203 with a token of another class than cls and its subclasses
\* treated as missing
byvalOutcomeOwn(cls, tokenvalue, noneIfMissing) ==
    IF ~HasAttr(index, cls) THEN [raised |-> 197, ret |-> None]
    ELSE IF /\ DictHas(GetAttr(index, cls).items, tokenvalue)
            /\ issubclass(DictGet(GetAttr(index, cls).items, tokenvalue).cls, cls)
    THEN [raised |-> 0, ret |-> Some(DictGet(GetAttr(index, cls).items, tokenvalue))]
    ELSE IF noneIfMissing THEN [raised |-> 0, ret |-> None]
    ELSE [raised |-> 202, ret |-> None]

\* the outcome of cls.byval(tokenvalue, noneIfMissing)
byvalOutcome(cls, tokenvalue, noneIfMissing) ==
    IF ~HasAttr(index, cls) THEN [raised |-> 197, ret |-> None]
    ELSE IF DictHas(GetAttr(index, cls).items, tokenvalue)
    THEN [raised |-> 0, ret |-> Some(DictGet(GetAttr(index, cls).items, tokenvalue))]
    ELSE IF noneIfMissing THEN [raised |-> 0, ret |-> None]
    ELSE [raised |-> 202, ret |-> None]

\* the outcome of cls.bynum(numvalue, noneIfMissing)
bynumOutcome(cls, numvalue, noneIfMissing) ==
    IF ~HasAttr(numindex, cls) THEN [raised |-> 222, ret |-> None]
    ELSE IF DictHas(GetAttr(numindex, cls).items, numvalue)
    THEN [raised |-> 0, ret |-> Some(DictGet(GetAttr(numindex, cls).items, numvalue))]
    ELSE IF noneIfMissing THEN [raised |-> 0, ret |-> None]
    ELSE [raised |-> 227, ret |-> None]

byval(cls, tokenvalue, noneIfMissing) ==
    /\ last' = Call("byval", cls, <<tokenvalue, noneIfMissing>>,
                    byvalOutcome(cls, tokenvalue, noneIfMissing).raised,
                    byvalOutcome(cls, tokenvalue, noneIfMissing).ret)
    /\ UNCHANGED <<register, index, numindex, values, hist, rootflags, nmakeroot>>

bynum(cls, numvalue, noneIfMissing) ==
    /\ last' = Call("bynum", cls, <<numvalue, noneIfMissing>>,
                    bynumOutcome(cls, numvalue, noneIfMissing).raised,
                    bynumOutcome(cls, numvalue, noneIfMissing).ret)
    /\ UNCHANGED <<register, index, numindex, values, hist, rootflags, nmakeroot>>

\* ------------------------------------- classification and enumeration, 231-289
\* type(token) == cls in place of isinstance
isinstanceExact(token, cls) == token.cls = cls

\* isinstance(token, cls)
isinstance(token, cls) == issubclass(token.cls, cls)

\* lines 270 and 285 without the filter
SelectAll(d, cls) == d

\* the items of d whose key passes the filter of lines 270 and 285
RECURSIVE SelectClasses(_, _)
SelectClasses(d, cls) ==
    IF d = << >> THEN << >>
    ELSE (IF issubclass(Head(d).k, cls) \/ Head(d).k = cls THEN <<Head(d)>> ELSE << >>)
         \o SelectClasses(Tail(d), cls)

\* cls.subclasses(), line 270: the classes, of which namesOnly gives the names
subclassesResult(cls) ==
    LET sel == SelectClasses(GetAttr(register, cls).items, cls)
    IN  [i \in 1..Len(sel) |-> sel[i].k]

\* the values of one class's register, in order
DictValues(d) == [i \in 1..Len(d) |-> d[i].v]

RECURSIVE Flatten(_)
Flatten(sel) ==
    IF sel = << >> THEN << >> ELSE DictValues(Head(sel).v) \o Flatten(Tail(sel))

\* lines 285-286 with the tokens sorted by the call that made them
tokensInCallOrder(cls) ==
    LET sel == Flatten(SelectClasses(GetAttr(register, cls).items, cls))
        T == {sel[i] : i \in 1..Len(sel)}
    IN  [i \in 1..Len(sel) |->
            CHOOSE t \in T : Cardinality({u \in T : u.id < t.id}) = i - 1]

\* cls.tokens(strOnly=False), lines 285-286
tokensResult(cls) == Flatten(SelectClasses(GetAttr(register, cls).items, cls))

\* cls.tokens(strOnly=True), line 288
tokensStr(cls) == [i \in 1..Len(tokensResult(cls)) |-> TokenStr(tokensResult(cls)[i])]

\* the instances the program holds: those its calls cls(...) returned
Instances == {hist[i].tok : i \in {j \in 1..Len(hist) : hist[j].raised = 0}}

includes(cls, token) ==
    /\ last' = Call("includes", cls, <<token>>, 0, isinstance(token, cls))
    /\ UNCHANGED <<register, index, numindex, values, hist, rootflags, nmakeroot>>

isof(s, tokenclass) ==
    /\ last' = Call("isof", s.cls, <<s, tokenclass>>, 0, isinstance(s, tokenclass))
    /\ UNCHANGED <<register, index, numindex, values, hist, rootflags, nmakeroot>>

subclasses(cls) ==
    /\ last' = Call("subclasses", cls, << >>, 0, subclassesResult(cls))
    /\ UNCHANGED <<register, index, numindex, values, hist, rootflags, nmakeroot>>

tokens(cls, strOnly) ==
    /\ last' = Call("tokens", cls, <<strOnly>>, 0,
                    IF strOnly THEN tokensStr(cls) ELSE tokensResult(cls))
    /\ UNCHANGED <<register, index, numindex, values, hist, rootflags, nmakeroot>>

\* ------------------------------------------------- equality and hash, 342-349
\* line 343 without the comparison of the int values
TokenEqNoInt(s, other) == s.cls = other.cls /\ TokenStr(s) = TokenStr(other)

\* s.__eq__(other)
TokenEq(s, other) ==
    s.cls = other.cls /\ TokenStr(s) = TokenStr(other) /\ TokenInt(s) = TokenInt(other)

\* s.__ne__(other)
TokenNe(s, other) == ~TokenEq(s, other)

\* hash(v) of a TokenValue object: the class defines neither __eq__ nor __hash__
\* (lines 113-122), so it is object.__hash__, which is one-to-one on the objects
\* alive together and does not read the fields
ObjectHash(v) == v.id

\* s.__hash__()
TokenHash(s) == ObjectHash(s.val)

eq(s, other) ==
    /\ last' = Call("eq", s.cls, <<s, other>>, 0,
                    <<TokenEq(s, other), TokenNe(s, other), TokenHash(s), TokenHash(other)>>)
    /\ UNCHANGED <<register, index, numindex, values, hist, rootflags, nmakeroot>>

\* ------------------------------------------------------------ the state machine
\* line 124: Token holds the one _register there is before any makeroot
Init ==
    /\ register = [c \in {"Token"} |-> NewDict(<<"Token", 0>>)]
    /\ index = << >>
    /\ numindex = << >>
    /\ values = {}
    /\ hist = << >>
    /\ rootflags = << >>
    /\ nmakeroot = 0
    /\ last = Call("", "", << >>, 0, None)

\* The read-only calls change nothing but `last`, so whatever can follow one can
\* follow the state it was made in: a run is explored up to its first read-only
\* call, which loses no state.
Changing == last.op \in {"", "Token", "TokenValue", "makeroot"}

\* the calls made so far that change the registry
Calls == Len(hist) + nmakeroot

\* a program that names its tokens, gives some an int value, and reads the
\* registry: at most maxCalls calls that change the registry, the read-only
\* calls after at most maxObserved of them
Program(maxCalls, maxObserved) ==
    \/ /\ Changing /\ Calls < maxCalls
       /\ \E cls \in TokenClasses, a \in NamedArgs : Construct(cls, a[1], a[2], a[3], None)
    \/ /\ Changing /\ Calls < maxCalls
       /\ \E cls \in TokenClasses, globalIndex \in BOOLEAN, globalNumIndex \in BOOLEAN :
             makeroot(cls, globalIndex, globalNumIndex)
    \/ /\ Changing /\ Calls <= maxObserved
       /\ \E cls \in TokenClasses, tokenvalue \in Keys, noneIfMissing \in BOOLEAN :
             byval(cls, tokenvalue, noneIfMissing)
    \/ /\ Changing /\ Calls <= maxObserved
       /\ \E cls \in TokenClasses, numvalue \in NumKeys, noneIfMissing \in BOOLEAN :
             bynum(cls, numvalue, noneIfMissing)
    \/ /\ Changing /\ Calls <= maxObserved
       /\ \E cls \in TokenClasses, token \in Instances : includes(cls, token)
    \/ /\ Changing /\ Calls <= maxObserved
       /\ \E s \in Instances, tokenclass \in TokenClasses : isof(s, tokenclass)
    \/ /\ Changing /\ Calls <= maxObserved
       /\ \E cls \in TokenClasses : subclasses(cls)
    \/ /\ Changing /\ Calls <= maxObserved
       /\ \E cls \in TokenClasses, strOnly \in BOOLEAN : tokens(cls, strOnly)
    \/ /\ Changing /\ Calls <= maxObserved
       /\ \E s \in Instances, other \in Instances : eq(s, other)

Next == Program(MaxCalls, MaxObserved)

Spec == Init /\ [][Next]_vars

\* the same program, run for longer
NextDeep == Program(MaxDeepCalls, MaxDeepObserved)

SpecDeep == Init /\ [][NextDeep]_vars

\* the calls made so far that make an object or change the registry
ValueCalls == Calls + Cardinality(values)

\* a program that builds value bundles, makes tokens of them and compares the tokens
NextValues ==
    \/ /\ Changing /\ ValueCalls < MaxValueCalls
       /\ \E a \in ValueArgs : NewTokenValue(a[1], a[2], a[3])
    \/ /\ Changing /\ ValueCalls < MaxValueCalls
       /\ \E cls \in ValueClasses, a \in ValueArgs \cup IntArgs :
             Construct(cls, a[1], a[2], a[3], None)
    \/ /\ Changing /\ ValueCalls < MaxValueCalls
       /\ \E cls \in ValueClasses, v \in values, strval \in {None, Some("A")} :
             Construct(cls, strval, None, NoPayload, Some(v))
    \/ /\ Changing /\ ValueCalls < MaxValueCalls
       /\ \E cls \in ValueClasses : makeroot(cls, TRUE, FALSE)
    \/ /\ Changing
       /\ \E s \in Instances, other \in Instances : eq(s, other)

SpecValues == Init /\ [][NextValues]_vars

\* the program of the example of lines 103-109, its calls in any order and
\* number, and the calls that read what it registered
NextScenario ==
    \/ /\ Changing /\ Calls < MaxScenarioCalls
       /\ \E a \in ScenarioArgs : Construct(a[1], a[2], None, a[3], None)
    \/ /\ Changing /\ Calls < MaxScenarioCalls
       /\ makeroot("Comparison", TRUE, FALSE)
    \/ /\ Changing
       /\ \E cls \in ScenarioClasses, strOnly \in BOOLEAN : tokens(cls, strOnly)
    \/ /\ Changing
       /\ \E cls \in ScenarioClasses : subclasses(cls)
    \/ /\ Changing
       /\ \E cls \in ScenarioClasses, n \in ScenarioNames, noneIfMissing \in BOOLEAN :
             byval(cls, Some(n), noneIfMissing)

SpecScenario == Init /\ [][NextScenario]_vars

\* ------------------------------------------------------------------- claims
\* the step is a call cls(...)
ConstructStep == Len(hist') = Len(hist) + 1

\* the instance the step's call made, and its record
NewRecord == hist'[Len(hist')]
NewToken == NewRecord.tok

\* the register of class cls in the dict cls._register answers: empty when the
\* class has none there
LocalRegister(cls) ==
    IF DictHas(GetAttr(register, cls).items, cls)
    THEN DictGet(GetAttr(register, cls).items, cls)
    ELSE << >>

\* DuplicateTokenError: the RuntimeError of lines 143, 150 and 158
IsDuplicateError(call) ==
    /\ call.exc = "RuntimeError"
    /\ call.msg \in {"Token must be globally unique in this micro segment",
                     "Token must be globally unique in this segment"}

\* the records of the calls cls(...) that returned an instance
Made == {hist[i] : i \in {j \in 1..Len(hist) : hist[j].raised = 0}}

\* C1: a call cls(...) whose name is already in the local register of cls raises
\* DuplicateTokenError and leaves _register, _index and _numindex of every class
\* as they were.
C1_DuplicateInClass ==
    [][(ConstructStep /\ DictHas(LocalRegister(NewToken.cls), TokenStr(NewToken)))
        => (IsDuplicateError(last') /\ UNCHANGED registry)]_vars

\* a call was rejected on line 143: another instance holds the name in the class
C1_Witness ==
    /\ last.op = "Token"
    /\ last.raised = 143
    /\ LET s == hist[Len(hist)].tok
       IN  /\ DictHas(LocalRegister(s.cls), TokenStr(s))
           /\ DictGet(LocalRegister(s.cls), TokenStr(s)).id # s.id

\* C2 (first part): where cls._index exists and holds the name, cls(...) raises
\* DuplicateTokenError, whatever the class of the instance that holds it.
C2_Rejected ==
    (ConstructStep /\ HasAttr(index, NewToken.cls)
                   /\ DictHas(GetAttr(index, NewToken.cls).items, TokenStr(NewToken)))
        => IsDuplicateError(last')

\* C2 (second part): no two instances made under one _index have the same name,
\* and an _index in use maps the name of each instance made under it to that
\* instance.
C2_Unique ==
    /\ \A h1 \in Made, h2 \in Made :
          (h1.ix # None /\ h1.ix = h2.ix /\ TokenStr(h1.tok) = TokenStr(h2.tok))
              => h1.tok.id = h2.tok.id
    /\ \A c \in DOMAIN index : \A h \in Made :
          h.ix = Some(index[c].id)
              => /\ DictHas(index[c].items, TokenStr(h.tok))
                 /\ DictGet(index[c].items, TokenStr(h.tok)) = h.tok

\* C2: under a root with a global string index a name already in the index is
\* rejected also for another class of the hierarchy, so the names of the
\* instances made in the hierarchy are distinct and the index maps each to the
\* first instance made with it.
C2_UniqueInHierarchy == []C2_Unique /\ [][C2_Rejected]_vars

\* a call was rejected on line 150 for a name that an instance of another class
\* holds in the index
C2_Witness ==
    /\ last.op = "Token"
    /\ last.raised = 150
    /\ LET s == hist[Len(hist)].tok
           ix == GetAttr(index, s.cls).items
       IN  /\ DictHas(ix, TokenStr(s))
           /\ DictGet(ix, TokenStr(s)).cls # s.cls
           /\ \E h \in Made : h.tok = DictGet(ix, TokenStr(s))

\* C3: a call cls(...) that raises on the check of _index (line 150) or of
\* _numindex (line 158) leaves both _index and _numindex of every class as they
\* were.
C3_FailedConstructKeepsIndexes ==
    [][(ConstructStep /\ last'.raised \in {150, 158})
        => UNCHANGED <<index, numindex>>]_vars

\* the name of the step's instance is new to its class and to the _index it
\* comes under
FreshName ==
    /\ ~DictHas(LocalRegister(NewToken.cls), TokenStr(NewToken))
    /\ HasAttr(index, NewToken.cls)
          => ~DictHas(GetAttr(index, NewToken.cls).items, TokenStr(NewToken))

\* C4 (first part): under a _numindex a call cls(...) without intval and with a
\* new name does not raise
C4_AbsentIntAccepted ==
    (ConstructStep /\ HasAttr(numindex, NewToken.cls) /\ TokenInt(NewToken) = None
                   /\ TokenStr(NewToken) # None /\ FreshName)
        => last'.raised = 0

\* C4 (second part): no _numindex has the key None
C4_NoAbsentKey == \A c \in DOMAIN numindex : ~DictHas(numindex[c].items, None)

\* C4: the check and the insertion of _numindex are made only for an instance
\* that has an intval: instances without one, of distinct names, are all
\* accepted, and no _numindex holds the key None.
C4_IntIndexSkipsAbsent == []C4_NoAbsentKey /\ [][C4_AbsentIntAccepted]_vars

\* C5: two instances that are equal (__eq__) have equal hashes (__hash__).
C5_EqualTokensHashEqual ==
    last.op = "eq" => (last.ret[1] => last.ret[3] = last.ret[4])

\* C6: s == other is true exactly when the two instances have the same class,
\* the same strval and the same intval (None equal to None), whatever their
\* floatval, dictval and listval, and s != other is its negation.
C6_EqualityByValue ==
    last.op = "eq" =>
        LET s == last.args[1]
            other == last.args[2]
        IN  /\ last.ret[1] = (/\ s.cls = other.cls
                              /\ s.val.strval = other.val.strval
                              /\ s.val.intval = other.val.intval)
            /\ last.ret[2] = ~last.ret[1]

\* two distinct instances with different payloads compare equal
C6_Witness ==
    /\ last.op = "eq"
    /\ last.args[1].id # last.args[2].id
    /\ last.args[1].val.floatval # last.args[2].val.floatval
    /\ last.args[1].val.dictval # last.args[2].val.dictval
    /\ last.args[1].val.listval # last.args[2].val.listval
    /\ last.ret[1]
    /\ ~last.ret[2]

\* the root a class comes under: the nearest class of its line, itself included,
\* that makeroot was called on (Token when there is none)
RootOf(cls) == Owner(register, cls)

\* makeroot was called on r, the last time with the string index enabled
RootWithIndex(r) == r \in DOMAIN rootflags /\ rootflags[r].globalIndex

\* makeroot was called on r, the last time with the int index enabled
RootWithNumIndex(r) == r \in DOMAIN rootflags /\ rootflags[r].globalNumIndex

\* C7: under a class made a root with both indexes disabled, and never with one
\* enabled, inside a root that has an index, a call cls(...) is not checked
\* against an index and enters none.
C7_NestedRootIndependent ==
    [][(/\ ConstructStep
        /\ RootOf(NewToken.cls) \in DOMAIN rootflags
        /\ ~RootWithIndex(RootOf(NewToken.cls))
        /\ ~RootWithNumIndex(RootOf(NewToken.cls))
        /\ RootOf(NewToken.cls) \notin DOMAIN index \cup DOMAIN numindex
        /\ \E r \in DOMAIN index \cup DOMAIN numindex : issubclass(RootOf(NewToken.cls), r))
        => (last'.raised \notin {150, 158} /\ UNCHANGED <<index, numindex>>)]_vars

\* C8: byval on a class whose root was not made with the string index enabled
\* raises AttributeError, and bynum likewise for the int index.
C8_LookupNeedsEnabledIndex ==
    /\ (last.op = "byval" /\ ~RootWithIndex(RootOf(last.cls))) => last.raised = 197
    /\ (last.op = "bynum" /\ ~RootWithNumIndex(RootOf(last.cls))) => last.raised = 222

\* there is a root with the string index enabled besides r
OtherRootWithIndex(r) == \E q \in DOMAIN rootflags \ {r} : RootWithIndex(q)

\* C9 (first part): a name made under one root with a string index is accepted
\* under another such root where neither the name nor the int value was used
C9_SameNameAccepted ==
    (/\ ConstructStep
     /\ RootWithIndex(RootOf(NewToken.cls))
     /\ \E h \in Made :
           /\ h.root # RootOf(NewToken.cls)
           /\ RootWithIndex(h.root)
           /\ TokenStr(h.tok) = TokenStr(NewToken)
     /\ \A i \in 1..Len(hist) :
           hist[i].root = RootOf(NewToken.cls)
               => /\ TokenStr(hist[i].tok) # TokenStr(NewToken)
                  /\ TokenInt(hist[i].tok) # TokenInt(NewToken))
        => last'.raised = 0

\* C9 (second part): byval and tokens on a root with a string index, where there
\* is another such root, give only instances made under the root they are
\* called on
C9_OwnTokensOnly ==
    /\ (last.op = "byval" /\ RootWithIndex(last.cls) /\ OtherRootWithIndex(last.cls)
                          /\ last.ret # None)
          => hist[last.ret[1].id].root = last.cls
    /\ (last.op = "tokens" /\ ~last.args[1] /\ RootWithIndex(last.cls)
                           /\ OtherRootWithIndex(last.cls))
          => \A i \in 1..Len(last.ret) : hist[last.ret[i].id].root = last.cls

\* C9: two roots made with the string index enabled are separate namespaces: a
\* name can be made in both, and byval and tokens of one never give an instance
\* of the other.
C9_NamespaceIsolation == []C9_OwnTokensOnly /\ [][C9_SameNameAccepted]_vars

\* C10: tokens(cls) lists the instances in the order in which they were made.
C10_TokensInConstructionOrder ==
    (last.op = "tokens" /\ ~last.args[1])
        => \A i \in 1..Len(last.ret), j \in 1..Len(last.ret) :
              i < j => last.ret[i].id < last.ret[j].id

\* the records of the returned instances that were made with name k while the
\* dict with this id was the _index of their class
MadeUnderIndex(id, k) == {h \in Made : h.ix = Some(id) /\ TokenStr(h.tok) = k}

\* the same for the int value k and the _numindex
MadeUnderNumIndex(id, k) == {h \in Made : h.nix = Some(id) /\ TokenInt(h.tok) = k}

\* what C11 asks of a lookup, given the records of the instances made with the key
LookupContract(call, made, keyErrorLine) ==
    IF made # {}
    THEN call.raised = 0 /\ call.ret # None /\ \E h \in made : call.ret[1] = h.tok
    ELSE IF call.args[2]
    THEN call.raised = 0 /\ call.ret = None
    ELSE call.raised = keyErrorLine /\ call.exc = "KeyError"

\* C11, lookup by int: cls.bynum(k) returns the instance that a call returned
\* with int value k under the int index of cls; when there is none it raises
\* KeyError, or returns None when noneIfMissing is true.
C11_BynumContract ==
    (last.op = "bynum" /\ HasAttr(numindex, last.cls)) =>
        LookupContract(last, MadeUnderNumIndex(GetAttr(numindex, last.cls).id, last.args[1]), 227)

\* C11, lookup by string: cls.byval(k) returns the instance that a call
\* returned with name k under the string index of cls; when there is none it
\* raises KeyError, or returns None when noneIfMissing is true.
C11_ByvalContract ==
    (last.op = "byval" /\ HasAttr(index, last.cls)) =>
        LookupContract(last, MadeUnderIndex(GetAttr(index, last.cls).id, last.args[1]), 202)

\* C11: both lookups return the successfully constructed token of the key when
\* there is one, and otherwise raise KeyError or, with noneIfMissing, return None.
C11_LookupReturnsConstructed == C11_ByvalContract /\ C11_BynumContract

\* the classes equal to or descending from c, read off the class statements
ClassOrBelow(c) ==
    CASE c = "Token" -> Classes
      [] c = "Status" -> {"Status", "Success", "Error"}
      [] c = "Comparison" -> {"Comparison", "Existence"}
      [] OTHER -> {c}

\* the records of the calls that put their instance into the dict with this id
\* as the _register of their class: those that passed lines 132 and 143
RegisteredIn(id) ==
    {hist[i] : i \in {j \in 1..Len(hist) : hist[j].reg = id /\ hist[j].raised \in {0, 150, 158}}}

\* the classes that have a token in the register cls resolves to
ClassesWithTokens(cls) == {h.tok.cls : h \in RegisteredIn(GetAttr(register, cls).id)}

Timely == \A c \in DOMAIN rootflags : ~rootflags[c].late

\* C13: in a run whose makeroot calls all came before the tokens of their class
\* and its descendants, no two returned instances of the same exact class have
\* the same name.
C13_UniquePerClass ==
    Timely =>
        \A g, h \in Made :
            (g.tok.cls = h.tok.cls /\ TokenStr(g.tok) = TokenStr(h.tok)) => g.tok.id = h.tok.id

\* a root made in time and without a string index holds one name in two of its
\* classes
C13_Witness ==
    /\ Timely /\ rootflags # << >>
    /\ \E g, h \in Made :
          /\ g.tok.cls # h.tok.cls /\ TokenStr(g.tok) = TokenStr(h.tok)
          /\ g.reg = h.reg /\ g.root \in DOMAIN rootflags
          /\ g.ix = None /\ h.ix = None

\* C14: in a call cls(...) a supplied bundle val is the bundle of the instance
\* whatever the field arguments are, and when the bundle of the instance has no
\* name the call raises RuntimeError "token must have a string value" and
\* leaves every register and both indexes as they were.
C14_Step ==
    ConstructStep =>
        /\ last'.args[4] # None => NewToken.val = last'.args[4][1]
        /\ TokenStr(NewToken) = None =>
              /\ last'.raised = 132
              /\ last'.exc = "RuntimeError"
              /\ last'.msg = "token must have a string value"
              /\ UNCHANGED registry

C14_NamelessFailsFirst == [][C14_Step]_vars

\* a call that passes a name and a bundle without one has failed, in a registry
\* that already holds a token
C14_Witness ==
    /\ last.op = "Token" /\ last.raised = 132
    /\ last.args[1] # None /\ last.args[4] # None /\ last.args[4][1].strval = None
    /\ Made # {}

\* C15: cls.includes(t) is true exactly when the class of t is cls or descends
\* from it, and t.isof(cls) is the same truth value, in every state the calls
\* cls(...) and makeroot lead to.
C15_ClassificationByInheritance ==
    /\ last.op = "includes" =>
          last.ret = (last.args[1].cls \in ClassOrBelow(last.cls))
    /\ last.op = "isof" =>
          last.ret = (last.args[1].cls \in ClassOrBelow(last.args[2]))

\* Status includes a token of Success that was made after Success.makeroot()
C15_Witness ==
    /\ last.op = "includes" /\ last.cls = "Status" /\ last.ret = TRUE
    /\ last.args[1].cls = "Success"
    /\ \E h \in Made : h.tok = last.args[1] /\ h.root = "Success"

\* the elements of a sequence
Range(seq) == {seq[i] : i \in 1..Len(seq)}

\* the records of the calls rejected on the check of the string index (line
\* 150) whose class still resolves to the _register it did then
RejectedByIndex ==
    {hist[i] : i \in {j \in 1..Len(hist) :
        hist[j].raised = 150 /\ hist[j].reg = GetAttr(register, hist[j].tok.cls).id}}

\* C16 (afterwards): a token rejected on the check of the string index is in the
\* register of its class under its name, tokens() of the root lists it and
\* subclasses() of the root lists its class, in the model's registry and in
\* what the calls tokens() and subclasses() on the root return.
C16_RejectedIsListed ==
    \A h \in RejectedByIndex :
        /\ DictHas(LocalRegister(h.tok.cls), TokenStr(h.tok))
        /\ DictGet(LocalRegister(h.tok.cls), TokenStr(h.tok)) = h.tok
        /\ h.tok \in Range(tokensResult(RootOf(h.tok.cls)))
        /\ h.tok.cls \in Range(subclassesResult(RootOf(h.tok.cls)))
        /\ (last.op = "tokens" /\ last.cls = RootOf(h.tok.cls)) =>
              (IF last.args[1] THEN TokenStr(h.tok) ELSE h.tok) \in Range(last.ret)
        /\ (last.op = "subclasses" /\ last.cls = RootOf(h.tok.cls)) =>
              h.tok.cls \in Range(last.ret)

\* C16 (the steps): a call rejected on the check of the string index found its
\* name absent from the register of its class and present in the index, and has
\* changed the register; a later call with the name of a token so rejected, in
\* the same class, is rejected on the check of the register (line 143).
C16_Step ==
    /\ (ConstructStep /\ last'.raised = 150) =>
          /\ ~DictHas(LocalRegister(NewToken.cls), TokenStr(NewToken))
          /\ DictHas(GetAttr(index, NewToken.cls).items, TokenStr(NewToken))
          /\ register' # register
          /\ IsDuplicateError(last')
    /\ (ConstructStep /\ \E h \in RejectedByIndex :
                            /\ h.tok.cls = NewToken.cls
                            /\ TokenStr(h.tok) = TokenStr(NewToken)) =>
          /\ last'.raised = 143
          /\ IsDuplicateError(last')

\* C16: a construct that fails on the global string-index check has already put
\* the rejected token into its class's local register; it is then listed by
\* tokens() of the root, its class by subclasses(), and the same name in that
\* class fails on the local check from then on.
C16_TwoPhaseRegistration == []C16_RejectedIsListed /\ [][C16_Step]_vars

\* Existence("EQ") was rejected on the index check and then again on the local
\* check
C16_Witness ==
    /\ last.op = "Token" /\ last.raised = 143
    /\ \E h \in RejectedByIndex :
          /\ h.tok.cls = last.cls /\ TokenStr(h.tok) = last.args[1]
          /\ DictGet(LocalRegister(last.cls), last.args[1]) = h.tok

\* the tokens in the register cls resolves to whose class is cls or below it
TokensInScope(cls) ==
    {h.tok : h \in {g \in RegisteredIn(GetAttr(register, cls).id) :
                        g.tok.cls \in ClassOrBelow(cls)}}

\* the call number of the first token of class c among the tokens T
FirstOfClass(T, c) ==
    CHOOSE n \in {t.id : t \in T} :
        /\ \E t \in T : t.id = n /\ t.cls = c
        /\ \A t \in T : t.cls = c => n <= t.id

\* u comes before t: its class received its first token earlier, or they are
\* of one class and u was stored earlier
ComesBefore(T, u, t) ==
    IF u.cls = t.cls THEN u.id < t.id
    ELSE FirstOfClass(T, u.cls) < FirstOfClass(T, t.cls)

\* the tokens T in that order
InClassOrder(T) ==
    [i \in 1..Cardinality(T) |->
        CHOOSE t \in T : Cardinality({u \in T : ComesBefore(T, u, t)}) = i - 1]

\* the calls so far are those of lines 104-109: Comparison.makeroot(), then the
\* four calls cls(...) in order, all returned
ScenarioDone ==
    /\ nmakeroot = 1
    /\ [i \in 1..Len(hist) |-> <<hist[i].tok.cls, TokenStr(hist[i].tok)>>] =
          << <<"Comparison", Some("EQ")>>, <<"Comparison", Some("LT")>>,
             <<"Existence", Some("EX")>>, <<"Existence", Some("NX")>> >>
    /\ \A i \in 1..Len(hist) : hist[i].raised = 0 /\ hist[i].reg = <<"Comparison", 1>>

\* C17 (general): cls.tokens() is the tokens in the register of cls whose class
\* is cls or below it, the classes in the order of their first token and the
\* tokens of a class in the order they were stored; strOnly gives their names.
C17_GroupedByClass ==
    last.op = "tokens" =>
        LET expected == InClassOrder(TokensInScope(last.cls))
        IN  last.ret = IF last.args[1]
                       THEN [i \in 1..Len(expected) |-> TokenStr(expected[i])]
                       ELSE expected

\* C17 (the example): after Comparison.makeroot() and Comparison("EQ"),
\* Comparison("LT"), Existence("EX"), Existence("NX"), Comparison.tokens() is
\* EQ, LT, EX, NX and Comparison.subclasses() is Comparison, Existence.
C17_Example ==
    ScenarioDone =>
        /\ tokensStr("Comparison") = <<Some("EQ"), Some("LT"), Some("EX"), Some("NX")>>
        /\ subclassesResult("Comparison") = <<"Comparison", "Existence">>
        /\ (last.op = "tokens" /\ last.cls = "Comparison" /\ last.args[1]) =>
              last.ret = <<Some("EQ"), Some("LT"), Some("EX"), Some("NX")>>
        /\ (last.op = "subclasses" /\ last.cls = "Comparison") =>
              last.ret = <<"Comparison", "Existence">>

MakerootStep == nmakeroot' = nmakeroot + 1

\* C18 (the call): makeroot on a class that has tokens, of its own or of a
\* class below it, returns normally and gives the class a new, empty
\* _register: tokens() and subclasses() of the class are empty after it, and so
\* is the register of every class that resolves to it.
C18_LateMakeroot ==
    \A c \in Classes \ {"Token"} :
        (MakerootStep /\ last'.cls = c /\ HasTokens(c)) =>
            /\ last'.raised = 0
            /\ GetAttr(register, c)'.id # GetAttr(register, c).id
            /\ GetAttr(register, c)'.items = << >>
            /\ tokensResult(c)' = << >>
            /\ subclassesResult(c)' = << >>
            /\ \A d \in ClassOrBelow(c) : RootOf(d)' = c => LocalRegister(d)' = << >>

\* C18 (afterwards): a token stored in another dict than the _register a class
\* holds now is listed neither by the model's tokens() of the class nor by a
\* call of it.
C18_EarlierNotListed ==
    \A c \in DOMAIN register : \A h \in Made :
        (issubclass(h.tok.cls, c) /\ h.reg # register[c].id) =>
            /\ h.tok \notin Range(tokensResult(c))
            /\ (last.op = "tokens" /\ last.cls = c /\ ~last.args[1]) =>
                  h.tok \notin Range(last.ret)

\* C18 (the name again): a call cls(...) with a name that a returned token of
\* the same class holds only in replaced registers passes the check of line
\* 142, and returns a token unless an index cls resolves to rejects it.
C18_NameAgain ==
    (/\ ConstructStep
     /\ \E h \in Made : h.tok.cls = NewToken.cls /\ TokenStr(h.tok) = TokenStr(NewToken)
     /\ \A h \in RegisteredIn(NewRecord.reg) :
           ~(h.tok.cls = NewToken.cls /\ TokenStr(h.tok) = TokenStr(NewToken))) =>
        /\ last'.raised # 143
        /\ (/\ HasAttr(index, NewToken.cls) =>
                  ~DictHas(GetAttr(index, NewToken.cls).items, TokenStr(NewToken))
            /\ HasAttr(numindex, NewToken.cls) =>
                  ~DictHas(GetAttr(numindex, NewToken.cls).items, TokenInt(NewToken)))
              => last'.raised = 0

\* C18: a late makeroot is accepted and replaces the register the classes
\* resolve to by an empty one, so that tokens() and subclasses() no longer list
\* the earlier tokens and a name used in a class can be constructed again in it.
C18_LateMakerootResets ==
    []C18_EarlierNotListed /\ [][C18_LateMakeroot /\ C18_NameAgain]_vars

\* after a late makeroot a class holds two returned tokens with one name
C18_Witness ==
    /\ last.op = "Token" /\ last.raised = 0
    /\ last.cls \in DOMAIN rootflags /\ rootflags[last.cls].late
    /\ \E g, h \in Made :
          /\ g.tok.cls = last.cls /\ h.tok.cls = last.cls
          /\ TokenStr(g.tok) = TokenStr(h.tok) /\ g.tok.id # h.tok.id
          /\ h.tok = last.ret[1]

\* the OrderedDict d2 is d with entries added at its end, if any
Extends(d, d2) == Len(d) <= Len(d2) /\ \A i \in 1..Len(d) : d2[i] = d[i]

\* the attribute is held by the classes that held it, each holding the dict
\* object it held, with entries added at its end, if any
IndexGrows(attr, attr2) ==
    \A c \in DOMAIN attr :
        /\ c \in DOMAIN attr2
        /\ attr2[c].id = attr[c].id
        /\ Extends(attr[c].items, attr2[c].items)

\* the same for _register, a dict of dicts: the classes in it stay, in place,
\* and the register of each has entries added at its end, if any
RegisterGrows(attr, attr2) ==
    \A c \in DOMAIN attr :
        /\ c \in DOMAIN attr2
        /\ attr2[c].id = attr[c].id
        /\ Len(attr[c].items) <= Len(attr2[c].items)
        /\ \A i \in 1..Len(attr[c].items) :
              /\ attr2[c].items[i].k = attr[c].items[i].k
              /\ Extends(attr[c].items[i].v, attr2[c].items[i].v)

\* the step is a call that reads the registry
QueryStep == last'.op \in {"byval", "bynum", "includes", "isof", "subclasses", "tokens"}

C19_Step ==
    /\ ConstructStep =>
          /\ RegisterGrows(register, register')
          /\ IndexGrows(index, index')
          /\ IndexGrows(numindex, numindex')
    /\ QueryStep => UNCHANGED registry

\* C19: a call cls(...), returned or raised, removes no entry of a register or
\* an index and binds no key of one to another token, and the calls byval,
\* bynum, includes, isof, subclasses and tokens leave every register and index
\* as it was.
C19_RegistryOnlyGrows == [][C19_Step]_vars

\* a lookup of a key that is missing from an index that holds another has raised
\* KeyError
C19_Witness ==
    /\ last.op = "byval" /\ last.raised = 202 /\ last.exc = "KeyError"
    /\ GetAttr(index, last.cls).items # << >>

\* C20: for a class D on which makeroot was never called, D.byval(k) has the
\* outcome of R.byval(k), R being the class whose _register D resolves to: the
\* same token, the same None, or the same exception.
C20_LookupScopedByRoot ==
    (last.op = "byval" /\ last.cls \notin DOMAIN rootflags) =>
        LET onRoot == byvalOutcome(RootOf(last.cls), last.args[1], last.args[2])
        IN  /\ last.raised = onRoot.raised
            /\ last.ret = onRoot.ret

\* byval on a class below a made root returned a token that the class does not
\* include
C20_Witness ==
    /\ last.op = "byval" /\ last.cls \notin DOMAIN rootflags
    /\ RootOf(last.cls) \in DOMAIN rootflags /\ RootOf(last.cls) # last.cls
    /\ last.raised = 0 /\ last.ret # None
    /\ last.ret[1].cls \notin ClassOrBelow(last.cls)

====
